---- MODULE Spec2Model ----
(***************************************************************************)
(* A model of src/flight_agent.py: the flight value scorer                 *)
(* (FlightSearchAgent.sort_flights_by_value with parse_time), the          *)
(* multi-date gathering loop (analyze_flexible_dates) and the /itinerary   *)
(* handler (create_itinerary).                                             *)
(*                                                                         *)
(* Three specifications share the variables:                               *)
(*   SortSpec   sort_flights_by_value applied to bounded input sequences   *)
(*   ParseSpec  parse_time and flight_score applied to bounded time texts  *)
(*   Spec       one /itinerary request, step by blocking step              *)
(*                                                                         *)
(* Representation.                                                         *)
(*  - A dict value that may be missing, None, a number or something else   *)
(*    is a record [kind, val], kind in "absent" (key missing), "none"      *)
(*    (None), "num" (int, val), "str" (present, not a number).             *)
(*  - A time text is a record [kind, h, m]: "HM" is the text "h:m",        *)
(*    "AM"/"PM" the text "h:m AM"/"h:m PM", "lowerpm" the text "h:m pm",   *)
(*    "noisePM" a text holding PM in no time format, "datetime" the text   *)
(*    "2023-10-03 15:10", "garbled" any other text, "TBD" the sentinel,    *)
(*    "empty" the empty text, "none" None, "absent" a missing key.         *)
(*  - Hours are kept in minutes (hour * 60 + minute), the code's           *)
(*    hour + minute / 60 times 60, so that every value is an integer.      *)
(*  - A score is kept as its numerator over the denominator                *)
(*    5760 * max(sum, n), which is positive and the same for every         *)
(*    candidate of one call: scores compare as their numerators do.        *)
(*  - The list sort_flights_by_value returns holds the very dict objects   *)
(*    of its argument: it is modelled as the sequence of their positions   *)
(*    in the argument.                                                     *)
(***************************************************************************)
EXTENDS Integers, Sequences, FiniteSets

VARIABLES
    pc,                \* position of the running call / handler
    flight_results,    \* argument of sort_flights_by_value (the handler's all_flights)
    best_flights,      \* its result: positions in flight_results
    outcome,           \* "pending", "returned" or "raised" (sort_flights_by_value)
    time_str,          \* argument of parse_time
    hours,             \* its result, in minutes
    pair_scores,       \* flight_score of two probe candidates
    i,                 \* analyze_flexible_dates: loop index
    calls,             \* search calls issued so far (day offsets)
    upstream,          \* what each returned search call returned
    request,           \* the request's accommodation_type and budget
    hotels_data,
    airbnb_data,
    flight_cost,
    remaining_budget,
    itinerary,
    response

vars == <<pc, flight_results, best_flights, outcome, time_str, hours, pair_scores,
          i, calls, upstream, request, hotels_data, airbnb_data, flight_cost,
          remaining_budget, itinerary, response>>

sortVars == <<flight_results, best_flights, outcome>>
parseVars == <<time_str, hours, pair_scores>>
handlerVars == <<i, calls, upstream, request, hotels_data, airbnb_data, flight_cost,
                 remaining_budget, itinerary, response>>

----------------------------------------------------------------------------
(* Values *)

Num(n) == [kind |-> "num", val |-> n]
NoneVal == [kind |-> "none", val |-> 0]
Absent == [kind |-> "absent", val |-> 0]
StrVal == [kind |-> "str", val |-> 0]

Time(k, h, m) == [kind |-> k, h |-> h, m |-> m]
HM(h, m) == Time("HM", h, m)
TBD == Time("TBD", 0, 0)
NoTime == Time("absent", 0, 0)
Garbled == Time("garbled", 0, 0)

Min(a, b) == IF a <= b THEN a ELSE b
Max(a, b) == IF a >= b THEN a ELSE b
Abs(a) == IF a < 0 THEN -a ELSE a
Take(s, n) == SubSeq(s, 1, Min(n, Len(s)))

----------------------------------------------------------------------------
(* parse_time, src/flight_agent.py:77-89 *)

MinutesPerHour == 60
Noon == 12 * MinutesPerHour

\* not time_str or time_str == "TBD"
IsFalsyOrTBD(t) == t.kind \in {"none", "empty", "TBD"}

\* 'AM' in time_str or 'PM' in time_str
HasMeridiem(t) == t.kind \in {"AM", "PM", "noisePM"}

\* datetime.strptime(time_str, "%I:%M %p") succeeds
Strptime12Ok(t) == t.kind \in {"AM", "PM"} /\ t.h \in 1..12 /\ t.m \in 0..59

\* datetime.strptime(time_str, "%H:%M") succeeds
Strptime24Ok(t) == t.kind = "HM" /\ t.h \in 0..23 /\ t.m \in 0..59

\* time_obj.hour of a "%I:%M %p" parse
Hour12(t) == (t.h % 12) + (IF t.kind = "PM" THEN 12 ELSE 0)

\* a variant whose except branch returns 0 instead of 12
ParseTimeZeroOnError(t) ==
    IF IsFalsyOrTBD(t) THEN Noon
    ELSE IF HasMeridiem(t)
         THEN (IF Strptime12Ok(t) THEN Hour12(t) * MinutesPerHour + t.m ELSE 0)
         ELSE (IF Strptime24Ok(t) THEN t.h * MinutesPerHour + t.m ELSE 0)

\* time_obj.hour + time_obj.minute / 60, or 12, in minutes
ParseTime(t) ==
    IF IsFalsyOrTBD(t) THEN Noon
    ELSE IF HasMeridiem(t)
         THEN (IF Strptime12Ok(t) THEN Hour12(t) * MinutesPerHour + t.m ELSE Noon)
         ELSE (IF Strptime24Ok(t) THEN t.h * MinutesPerHour + t.m ELSE Noon)

----------------------------------------------------------------------------
(* sort_flights_by_value, src/flight_agent.py:168-206 *)

MaxResults == 10
MinBestValue == 3
DefaultPrice == 999999

\* flight.get("price"): a missing key reads as None
GetPrice(f) == IF f.price.kind = "absent" THEN NoneVal ELSE f.price

\* flight.get("price", d)
GetPriceOr(f, d) == IF f.price.kind = "absent" THEN Num(d) ELSE f.price

\* flight.get(<time field>, "12:00")
GetTimeOrNoon(t) == IF t.kind = "absent" THEN HM(12, 0) ELSE t

Positions(fr) == [k \in 1..Len(fr) |-> k]

\* a variant that filters nothing
KeepAllFlights(fr) == Positions(fr)

\* valid_flights = [f for f in flight_results if f.get("price") is not None]
ValidFlights(fr) ==
    SelectSeq(Positions(fr), LAMBDA k : GetPrice(fr[k]).kind # "none")

RECURSIVE SumPrices(_, _)
\* sum(f.get("price", 0) for f in valid_flights); only called when no term raises
SumPrices(fr, idx) ==
    IF idx = <<>> THEN 0
    ELSE GetPriceOr(fr[Head(idx)], 0).val + SumPrices(fr, Tail(idx))

\* flight_score raises TypeError: sum() meets a price that is no number
ScoreRaises(fr, valid) ==
    \E k \in 1..Len(valid) : GetPriceOr(fr[valid[k]], 0).kind # "num"

\* max(avg_price, 1) times len(valid_flights)
MeanFloor(fr, valid) == Max(SumPrices(fr, valid), Len(valid))

\* flight_score(flight) times 5760 * max(sum, n):
\*   price / max(avg, 1) * 0.5        = 2880 * price * n / (5760 * max(sum, n))
\*   out_dep / 24 * 0.25              = out minutes / 5760
\*   abs(-ret_dep) / 24 * 0.25        = |-(ret minutes)| / 5760
FlightScore(f, fr, valid) ==
    LET price == GetPriceOr(f, DefaultPrice).val
        out_dep == ParseTime(GetTimeOrNoon(f.outbound_departure_time))
        ret_dep == ParseTime(GetTimeOrNoon(f.return_departure_time))
        scale == MeanFloor(fr, valid)
    IN  2880 * price * Len(valid) + out_dep * scale + Abs(-ret_dep) * scale

RECURSIVE InsertUnstable(_, _, _)
\* a variant that places x before the elements of equal key
InsertUnstable(x, s, key) ==
    IF s = <<>> THEN <<x>>
    ELSE IF key[Head(s)] < key[x]
         THEN <<Head(s)>> \o InsertUnstable(x, Tail(s), key)
         ELSE <<x>> \o s

RECURSIVE Insert(_, _, _)
\* sorted() is stable: x goes after every element whose key is <= its own
Insert(x, s, key) ==
    IF s = <<>> THEN <<x>>
    ELSE IF key[Head(s)] <= key[x]
         THEN <<Head(s)>> \o Insert(x, Tail(s), key)
         ELSE <<x>> \o s

RECURSIVE SortedByKey(_, _)
\* sorted(valid_flights, key=flight_score), the key computed once per element
SortedByKey(idx, key) ==
    IF idx = <<>> THEN <<>>
    ELSE Insert(idx[Len(idx)], SortedByKey(SubSeq(idx, 1, Len(idx) - 1), key), key)

SortedFlights(fr, valid) ==
    SortedByKey(valid, [k \in 1..Len(fr) |-> FlightScore(fr[k], fr, valid)])

\* f.get("price", 999999) <= best_price * 1.2
WithinThreshold(price, best_price) == 5 * price <= 6 * best_price

\* best_value = [f for f in sorted_flights if f.get("price", 999999) <= threshold]
BestValue(fr, sorted) ==
    LET best_price == GetPriceOr(fr[sorted[1]], 0).val
    IN  SelectSeq(sorted, LAMBDA k :
            WithinThreshold(GetPriceOr(fr[k], DefaultPrice).val, best_price))

\* a variant that is content with 2
EnoughWithTwo(best_value) == Len(best_value) >= 2

\* if len(best_value) >= 3
EnoughBestValue(best_value) == Len(best_value) >= MinBestValue

\* a variant that does not slice
Uncapped(s) == s

\* s[:10]
Capped(s) == Take(s, MaxResults)

\* the whole routine: [outcome, flights]
SortFlightsByValue(fr) ==
    IF fr = <<>> THEN [outcome |-> "returned", flights |-> <<>>]
    ELSE LET valid == ValidFlights(fr) IN
         IF valid = <<>> THEN [outcome |-> "returned", flights |-> <<>>]
         ELSE IF ScoreRaises(fr, valid) THEN [outcome |-> "raised", flights |-> <<>>]
         ELSE LET sorted == SortedFlights(fr, valid)
                  best_value == BestValue(fr, sorted)
              IN  IF EnoughBestValue(best_value)
                  THEN [outcome |-> "returned", flights |-> Capped(best_value)]
                  ELSE [outcome |-> "returned", flights |-> Capped(sorted)]

----------------------------------------------------------------------------
(* Inputs of SortSpec *)

MaxLen == 3
MaxExtra == 1

Flight(p, out, ret) ==
    [outbound_date |-> 0, price |-> p,
     outbound_departure_time |-> out, return_departure_time |-> ret]

Candidates ==
    { Flight(NoneVal, TBD, TBD),
      Flight(Absent, HM(6, 0), TBD),
      Flight(StrVal, TBD, TBD),
      Flight(Num(100), TBD, TBD),
      Flight(Num(100), Garbled, NoTime),
      Flight(Num(100), HM(6, 0), HM(18, 0)),
      Flight(Num(100), HM(6, 0), HM(6, 0)),
      Flight(Num(110), Time("AM", 6, 30), TBD),
      Flight(Num(400), TBD, TBD),
      Flight(Num(0), TBD, HM(18, 0)),
      Flight(Num(-50), TBD, TBD) }

LongCandidates ==
    { Flight(Num(100), TBD, TBD), Flight(Num(400), TBD, TBD) }

SeqsUpTo(S, lo, hi) == UNION { [1..n -> S] : n \in lo..hi }

Priced(ps) == [k \in 1..Len(ps) |-> Flight(Num(ps[k]), NoTime, NoTime)]

\* the two worked examples: prices [100, 105, 110, 500] and [100, 400]
ExampleInputs == { Priced(<<100, 105, 110, 500>>), Priced(<<100, 400>>) }

SortInputs ==
    SeqsUpTo(Candidates, 0, MaxLen)
        \cup SeqsUpTo(LongCandidates, MaxResults + 1, MaxResults + MaxExtra)
        \cup ExampleInputs

Idle == "idle"

HandlerIdle ==
    /\ i = 0 /\ calls = <<>> /\ upstream = <<>> /\ request = Idle
    /\ hotels_data = Idle /\ airbnb_data = Idle /\ flight_cost = 0
    /\ remaining_budget = 0 /\ itinerary = Idle /\ response = Idle

ParseIdle == time_str = TBD /\ hours = 0 /\ pair_scores = <<>>

SortInit ==
    /\ pc = "call"
    /\ flight_results \in SortInputs
    /\ best_flights = <<>>
    /\ outcome = "pending"
    /\ ParseIdle
    /\ HandlerIdle

SortCall ==
    /\ pc = "call"
    /\ LET r == SortFlightsByValue(flight_results)
       IN  /\ outcome' = r.outcome
           /\ best_flights' = r.flights
    /\ pc' = "done"
    /\ UNCHANGED <<flight_results, parseVars, handlerVars>>

SortNext == SortCall

SortSpec == SortInit /\ [][SortNext]_vars

----------------------------------------------------------------------------
(* Inputs and steps of ParseSpec *)

MaxHour == 24
MaxMinute == 60

\* texts of the shapes "h:m", "h:m AM", "h:m PM", "h:m pm", in and out of range
ClockTexts ==
    { Time(k, h, m) : k \in {"HM", "AM", "PM", "lowerpm"}, h \in 0..MaxHour, m \in 0..MaxMinute }

OtherTexts ==
    { Time(k, 0, 0) : k \in {"none", "empty", "TBD", "garbled", "noisePM", "datetime"} }

TimeTexts == ClockTexts \cup OtherTexts

\* three candidates that differ in their time fields only: the text as outbound
\* departure time, no time field at all, the text as return departure time
ProbeFlights(t) ==
    << Flight(Num(100), t, NoTime),
       Flight(Num(100), NoTime, NoTime),
       Flight(Num(100), NoTime, t) >>

SortIdle == flight_results = <<>> /\ best_flights = <<>> /\ outcome = "pending"

ParseInit ==
    /\ pc = "parse"
    /\ time_str \in TimeTexts
    /\ hours = 0
    /\ pair_scores = <<>>
    /\ SortIdle
    /\ HandlerIdle

\* self.parse_time(time_str)
ParseCall ==
    /\ pc = "parse"
    /\ hours' = ParseTime(time_str)
    /\ pc' = "score"
    /\ UNCHANGED <<time_str, pair_scores, sortVars, handlerVars>>

\* flight_score of each probe candidate, valid_flights being the three of them
ScoreCall ==
    /\ pc = "score"
    /\ LET fr == ProbeFlights(time_str)
           valid == ValidFlights(fr)
       IN  pair_scores' = [k \in 1..Len(fr) |-> FlightScore(fr[k], fr, valid)]
    /\ pc' = "scored"
    /\ UNCHANGED <<time_str, hours, sortVars, handlerVars>>

ParseNext == ParseCall \/ ScoreCall

ParseSpec == ParseInit /\ [][ParseNext]_vars

----------------------------------------------------------------------------
(* analyze_flexible_dates, src/flight_agent.py:91-166, and create_itinerary,  *)
(* src/flight_agent.py:330-423, for a request that passes the field check of  *)
(* line 342 and whose dates parse. Each blocking outbound call is a step of   *)
(* its own; what the collaborator answers is the environment's choice.        *)

DaysRange == 7
MaxOptions == 8

Leg(airport_time, departure_time) ==
    [airport_time |-> airport_time, departure_time |-> departure_time]

Offer(p, legs) == [price |-> p, flights |-> legs]

\* search_flights, except branch: {"error": str(e)}, which holds neither list
SearchError == [kind |-> "error", best_flights |-> <<>>, other_flights |-> <<>>]

SearchData(best, other) == [kind |-> "data", best_flights |-> best, other_flights |-> other]

\* what the search provider may answer to one call (a missing list reads as empty)
SearchAnswers ==
    { SearchData(<< Offer(Num(100), <<Leg(HM(18, 0), NoTime)>>),
                    Offer(NoneVal, <<Leg(HM(6, 0), NoTime)>>) >>,
                 << Offer(Num(110), <<Leg(NoTime, Time("AM", 6, 30)), Leg(NoTime, NoTime)>>) >>),
      SearchData(<<>>, << Offer(Num(400), <<>>) >>) }

Budgets == {1000, 150}
AccommodationTypes == {"hotels", "airbnb", "both"}
Requests == [accommodation_type : AccommodationTypes, budget : Budgets]

\* a or b, on Python truth values
OrElse(a, b) == IF a.kind \in {"absent", "none", "empty"} THEN b ELSE a

\* lines 117-139: the outbound departure time of one offer
OutboundDepTime(flight) ==
    IF flight.flights # <<>>
    THEN OrElse(flight.flights[1].airport_time, OrElse(flight.flights[1].departure_time, TBD))
    ELSE TBD

\* lines 107-112: all_flights of one answer
AllFlights(flight_data) == flight_data.best_flights \o flight_data.other_flights

\* lines 116-163: the candidates one answer adds, offers without price skipped
NewResults(flight_data, search_date) ==
    LET priced == SelectSeq(AllFlights(flight_data), LAMBDA fl : fl.price.kind \notin {"none", "absent"})
    IN  [k \in 1..Len(priced) |->
            [outbound_date |-> search_date,
             price |-> priced[k].price,
             outbound_departure_time |-> OutboundDepTime(priced[k]),
             return_departure_time |-> TBD]]

\* a variant in which a failed lookup discards what was collected
CollectDroppingOnError(results, flight_data, search_date) ==
    IF flight_data.kind = "error" THEN <<>>
    ELSE results \o NewResults(flight_data, search_date)

\* results after the loop body has handled one answer
Collect(results, flight_data, search_date) ==
    results \o NewResults(flight_data, search_date)

\* a variant that takes the lowest price of the list, not its first
CostOfCheapest(fr, best) ==
    IF best # <<>>
    THEN LET cheapest == CHOOSE a \in 1..Len(best) :
                             \A b \in 1..Len(best) :
                                 GetPriceOr(fr[best[a]], 0).val <= GetPriceOr(fr[best[b]], 0).val
         IN  GetPriceOr(fr[best[cheapest]], 0).val
    ELSE 0

\* line 374: best_flights[0].get('price', 0) if best_flights else 0
FlightCost(fr, best) ==
    IF best # <<>> THEN GetPriceOr(fr[best[1]], 0).val ELSE 0

\* lines 381-393 and 395-407: the options listed from one accommodation answer
Options(data) == IF data = "properties" THEN "listed" ELSE "empty"

Init ==
    /\ pc = "loop"
    /\ request \in Requests
    /\ i = 0
    /\ calls = <<>>
    /\ upstream = <<>>
    /\ flight_results = <<>>
    /\ best_flights = <<>>
    /\ outcome = "pending"
    /\ hotels_data = "none"
    /\ airbnb_data = "none"
    /\ flight_cost = 0
    /\ remaining_budget = 0
    /\ itinerary = Idle
    /\ response = Idle
    /\ ParseIdle

\* lines 101-105: the loop issues the search call of day i
IssueSearch ==
    /\ pc = "loop"
    /\ i < DaysRange
    /\ calls' = Append(calls, i)
    /\ pc' = "searching"
    /\ UNCHANGED <<flight_results, best_flights, outcome, parseVars, i, upstream, request,
                   hotels_data, airbnb_data, flight_cost, remaining_budget, itinerary, response>>

\* the call's answer, then lines 107-163
LoopBody(flight_data) ==
    /\ upstream' = Append(upstream, flight_data)
    /\ flight_results' = Collect(flight_results, flight_data, i)
    /\ i' = i + 1
    /\ pc' = "loop"
    /\ UNCHANGED <<best_flights, outcome, parseVars, calls, request,
                   hotels_data, airbnb_data, flight_cost, remaining_budget, itinerary, response>>

\* lines 39-41: the request raised
SearchFails ==
    /\ pc = "searching"
    /\ LoopBody(SearchError)

\* lines 35-38
SearchReturns ==
    /\ pc = "searching"
    /\ \E flight_data \in SearchAnswers : LoopBody(flight_data)

\* lines 166 and 359: the loop is over, the flights are ranked
RankFlights ==
    /\ pc = "loop"
    /\ i = DaysRange
    /\ LET r == SortFlightsByValue(flight_results)
       IN  /\ outcome' = r.outcome
           /\ best_flights' = r.flights
           /\ pc' = IF r.outcome = "raised" THEN "aborted" ELSE "hotels"
    /\ UNCHANGED <<flight_results, parseVars, i, calls, upstream, request,
                   hotels_data, airbnb_data, flight_cost, remaining_budget, itinerary, response>>

HotelsStep(data) ==
    /\ pc = "hotels"
    /\ hotels_data' = data
    /\ pc' = "airbnb"
    /\ UNCHANGED <<sortVars, parseVars, i, calls, upstream, request,
                   airbnb_data, flight_cost, remaining_budget, itinerary, response>>

\* line 367 is false: hotels_data stays None
SkipHotels == request.accommodation_type \notin {"hotels", "both"} /\ HotelsStep("none")

\* lines 58-59
HotelsFail == request.accommodation_type \in {"hotels", "both"} /\ HotelsStep("error")

\* lines 56-57
HotelsReturn == request.accommodation_type \in {"hotels", "both"} /\ HotelsStep("properties")

AirbnbStep(data) ==
    /\ pc = "airbnb"
    /\ airbnb_data' = data
    /\ pc' = "llm"
    /\ UNCHANGED <<sortVars, parseVars, i, calls, upstream, request,
                   hotels_data, flight_cost, remaining_budget, itinerary, response>>

\* line 370 is false: airbnb_data stays None
SkipAirbnb == request.accommodation_type \notin {"airbnb", "both"} /\ AirbnbStep("none")

\* lines 74-75
AirbnbFail == request.accommodation_type \in {"airbnb", "both"} /\ AirbnbStep("error")

\* lines 72-73
AirbnbReturn == request.accommodation_type \in {"airbnb", "both"} /\ AirbnbStep("properties")

\* lines 374-375, up to the call of line 297
Budgeting ==
    /\ flight_cost' = FlightCost(flight_results, best_flights)
    /\ remaining_budget' = request.budget - flight_cost'

\* lines 297-301: client.messages.create raises; nothing catches it, neither in
\* create_structured_itinerary nor in create_itinerary
LlmFails ==
    /\ pc = "llm"
    /\ Budgeting
    /\ pc' = "aborted"
    /\ UNCHANGED <<sortVars, parseVars, i, calls, upstream, request,
                   hotels_data, airbnb_data, itinerary, response>>

\* lines 303-319, then 380-423: the answer parses ("parsed") or not ("fallback")
LlmReturns ==
    /\ pc = "llm"
    /\ Budgeting
    /\ \E parsed \in {"parsed", "fallback"} :
          /\ itinerary' = parsed
          /\ response' = [flight_options |-> Take(best_flights, MaxOptions),
                          recommended_flight_cost |-> flight_cost',
                          remaining_budget |-> remaining_budget',
                          hotel_options |-> Options(hotels_data),
                          airbnb_options |-> Options(airbnb_data),
                          itinerary |-> parsed]
    /\ pc' = "responded"
    /\ UNCHANGED <<sortVars, parseVars, i, calls, upstream, request,
                   hotels_data, airbnb_data>>

Next ==
    \/ IssueSearch
    \/ SearchFails
    \/ SearchReturns
    \/ RankFlights
    \/ SkipHotels
    \/ HotelsFail
    \/ HotelsReturn
    \/ SkipAirbnb
    \/ AirbnbFail
    \/ AirbnbReturn
    \/ LlmFails
    \/ LlmReturns

Spec == Init /\ [][Next]_vars

----------------------------------------------------------------------------
(* Properties of sort_flights_by_value, checked under SortSpec *)

Returned == outcome = "returned"

\* the candidate at position k of the returned list
ReturnedFlight(k) == flight_results[best_flights[k]]

HasNumericPrice(f) == f.price.kind = "num"
HasNoPrice(f) == f.price.kind \in {"none", "absent"}

\* positions of the input candidates that have a price
PricedPositions == { k \in 1..Len(flight_results) : ~HasNoPrice(flight_results[k]) }

\* the score of every input position, as flight_score computes it
ScoreTable ==
    LET valid == ValidFlights(flight_results)
    IN  [k \in 1..Len(flight_results) |-> FlightScore(flight_results[k], flight_results, valid)]

PriceAt(k) == flight_results[k].price.val

\* a is ranked before b: lower score, or equal score and earlier in the input
RankedBefore(sc, a, b) == sc[a] < sc[b] \/ (sc[a] = sc[b] /\ a < b)

\* the 1-based rank of a among the positions W
RankIn(sc, a, W) == Cardinality({ b \in W : RankedBefore(sc, b, a) }) + 1

\* S[0]: the top-ranked of the positions W
TopRanked(sc, W) == CHOOSE a \in W : \A b \in W : b = a \/ RankedBefore(sc, a, b)

\* T: the candidates of W whose price is <= bestPrice * 1.2
ThresholdSet(sc, W) ==
    LET best_price == PriceAt(TopRanked(sc, W))
    IN  { a \in W : 5 * PriceAt(a) <= 6 * best_price }

\* the candidates the selection rule asks for: T when it has 3 members, else S
SelectedSet(sc, W) ==
    LET T == ThresholdSet(sc, W)
    IN  IF Cardinality(T) >= 3 THEN T ELSE W

\* C1: every returned candidate is an input candidate with a numeric price (one
\* with a missing price never appears), and an input in which no candidate has a
\* price yields the empty list.
C1_ReturnedHavePrice ==
    Returned =>
        /\ \A k \in 1..Len(best_flights) :
              /\ best_flights[k] \in 1..Len(flight_results)
              /\ HasNumericPrice(ReturnedFlight(k))
        /\ (\A j \in 1..Len(flight_results) : HasNoPrice(flight_results[j]))
              => best_flights = <<>>

C1_Witness ==
    /\ Returned
    /\ best_flights # <<>>
    /\ \E j \in 1..Len(flight_results) : flight_results[j].price.kind = "none"
    /\ \E j \in 1..Len(flight_results) : flight_results[j].price.kind = "absent"

\* C2: with S the priced candidates in ascending score order and T those of S
\* whose price is <= 1.2 * the price of S[0], the returned list is the first 10
\* of T when T has at least 3 members and the first 10 of S otherwise; prices
\* [100, 105, 110, 500] return the candidates 100, 105, 110 and prices
\* [100, 400] return both candidates.
C2_SelectionWithFallback ==
    (Returned /\ PricedPositions # {}) =>
        LET sc == ScoreTable
            sel == SelectedSet(sc, PricedPositions)
        IN  /\ Len(best_flights) = Min(10, Cardinality(sel))
            /\ \A k \in 1..Len(best_flights) :
                  /\ best_flights[k] \in sel
                  /\ RankIn(sc, best_flights[k], sel) = k
            /\ (flight_results = Priced(<<100, 105, 110, 500>>)
                  => best_flights = <<1, 2, 3>>)
            /\ (flight_results = Priced(<<100, 400>>) => best_flights = <<1, 2>>)

C2_Witness ==
    /\ Returned
    /\ PricedPositions # {}
    /\ LET T == ThresholdSet(ScoreTable, PricedPositions)
       IN  /\ Cardinality(T) >= 3
           /\ T # PricedPositions
           /\ Len(best_flights) = Cardinality(T)

\* the score as documented: 0.5 * price / max(mean, 1) + 0.25 * out / 24
\*   + 0.25 * (1 - ret / 24), over the denominator of ScoreTable
DocumentedScoreTable ==
    LET valid == ValidFlights(flight_results)
        scale == MeanFloor(flight_results, valid)
    IN  [k \in 1..Len(flight_results) |->
            2880 * PriceAt(k) * Len(valid)
              + ParseTime(GetTimeOrNoon(flight_results[k].outbound_departure_time)) * scale
              + (24 * MinutesPerHour
                   - ParseTime(GetTimeOrNoon(flight_results[k].return_departure_time))) * scale]

\* C3: the returned list is ranked by the score 0.5 * price / max(mean_price, 1)
\* + 0.25 * outbound_hour / 24 + 0.25 * (1 - return_hour / 24); of two candidates
\* with equal price and equal outbound departure time, the one with the later
\* return departure time is ranked first.
C3_LateReturnRankedFirst ==
    Returned =>
        LET doc == DocumentedScoreTable
        IN  \A a, b \in 1..Len(best_flights) :
                a < b => doc[best_flights[a]] <= doc[best_flights[b]]

\* C4: sort_flights_by_value never raises: every call returns a list, and a
\* candidate whose price is present but not a number is dropped like one
\* with no price.
C4_NeverRaises ==
    pc = "done" =>
        /\ outcome = "returned"
        /\ \A k \in 1..Len(best_flights) : HasNumericPrice(ReturnedFlight(k))

\* C5: the returned list has at most 10 candidates, and at least 1 whenever the
\* input holds a candidate with a valid price.
C5_LengthBounds ==
    Returned =>
        /\ Len(best_flights) <= 10
        /\ (\E j \in 1..Len(flight_results) : HasNumericPrice(flight_results[j]))
              => Len(best_flights) >= 1

C5_Witness ==
    /\ Returned
    /\ Len(flight_results) > 10
    /\ Len(best_flights) = 10

\* C6: the returned list is in ascending score order in both branches, and
\* returned candidates of equal score keep their relative order of the input.
C6_SortedAndStable ==
    Returned =>
        LET sc == ScoreTable
        IN  \A a, b \in 1..Len(best_flights) :
                a < b =>
                    /\ sc[best_flights[a]] <= sc[best_flights[b]]
                    /\ (sc[best_flights[a]] = sc[best_flights[b]]
                          => best_flights[a] < best_flights[b])

C6_Witness ==
    /\ Returned
    /\ LET sc == ScoreTable
       IN  /\ \E a, b \in 1..Len(best_flights) :
                 /\ a < b
                 /\ sc[best_flights[a]] = sc[best_flights[b]]
                 /\ ReturnedFlight(a) # ReturnedFlight(b)
           /\ \E a, b \in 1..Len(best_flights) :
                 sc[best_flights[a]] < sc[best_flights[b]]

----------------------------------------------------------------------------
(* Properties of parse_time, checked under ParseSpec *)

\* a text one of the two accepted formats reads: "H:M" on the 24-hour clock,
\* or "I:M AM" / "I:M PM" on the 12-hour clock
WellFormed(t) ==
    \/ t.kind = "HM" /\ 0 <= t.h /\ t.h <= 23 /\ 0 <= t.m /\ t.m <= 59
    \/ t.kind \in {"AM", "PM"} /\ 1 <= t.h /\ t.h <= 12 /\ 0 <= t.m /\ t.m <= 59

\* the hour of day a well-formed text names
HourOfDay(t) ==
    CASE t.kind = "HM" -> t.h
      [] t.kind = "AM" -> IF t.h = 12 THEN 0 ELSE t.h
      [] t.kind = "PM" -> IF t.h = 12 THEN 12 ELSE t.h + 12

\* C9: parse_time returns an hour in [0, 24): hour + minute / 60 for a
\* well-formed text and 12 for every absent, sentinel or unparseable value, so
\* that a candidate with an unparseable time field scores exactly as the same
\* candidate with no time field at all.
C9_ParseTimeTotal ==
    /\ pc \in {"score", "scored"} =>
          /\ 0 <= hours /\ hours < 24 * 60
          /\ WellFormed(time_str) => hours = HourOfDay(time_str) * 60 + time_str.m
          /\ ~WellFormed(time_str) => hours = 12 * 60
    /\ (pc = "scored" /\ ~WellFormed(time_str)) =>
          /\ pair_scores[1] = pair_scores[2]
          /\ pair_scores[3] = pair_scores[2]

C9_Witness ==
    /\ pc = "scored"
    /\ time_str = Garbled
    /\ hours = 12 * 60
    /\ pair_scores[1] = pair_scores[2]

----------------------------------------------------------------------------
(* Properties of the /itinerary handler, checked under Spec *)

\* the candidates collected for the search date d
CollectedFor(d) == SelectSeq(flight_results, LAMBDA f : f.outbound_date = d)

\* the offers of one answer that carry a price
PricedOffers(flight_data) ==
    SelectSeq(flight_data.best_flights \o flight_data.other_flights,
              LAMBDA fl : fl.price.kind = "num")

\* C7: an upstream request failure (a search call or the language-model call)
\* never aborts the handler: it still returns its aggregate response, the
\* fields computed from the failed call being empty.
C7_FailuresNeverAbort ==
    /\ pc # "aborted"
    /\ pc = "responded" =>
          /\ hotels_data = "error" => response.hotel_options = "empty"
          /\ airbnb_data = "error" => response.airbnb_options = "empty"

\* C8: analyze_flexible_dates issues one search call per date, in ascending
\* date order, each only after the previous one has returned and its offers
\* are collected; a failed lookup is not retried, adds no candidate for its
\* date and leaves the candidates of the other dates as they are.
C8_OneCallPerDate ==
    /\ calls = [k \in 1..Len(calls) |-> k - 1]
    /\ Len(calls) <= DaysRange
    /\ pc \notin {"loop", "searching"} => Len(calls) = DaysRange
    /\ Len(upstream) = (IF pc = "searching" THEN Len(calls) - 1 ELSE Len(calls))
    /\ \A k \in 1..Len(flight_results) : flight_results[k].outbound_date < Len(upstream)
    /\ \A k \in 1..Len(flight_results) - 1 :
          flight_results[k].outbound_date <= flight_results[k + 1].outbound_date
    /\ \A d \in 1..Len(upstream) :
          /\ upstream[d].kind = "error" => CollectedFor(d - 1) = <<>>
          /\ LET offers == PricedOffers(upstream[d])
             IN  /\ Len(CollectedFor(d - 1)) = Len(offers)
                 /\ \A k \in 1..Len(offers) : CollectedFor(d - 1)[k].price = offers[k].price

C8_Witness ==
    /\ pc = "hotels"
    /\ Len(calls) = DaysRange
    /\ upstream[1].kind = "data"
    /\ upstream[2].kind = "error"
    /\ upstream[3].kind = "data"
    /\ CollectedFor(0) # <<>>
    /\ CollectedFor(1) = <<>>
    /\ CollectedFor(2) # <<>>

\* C10: when a valid candidate exists and no valid price is negative, the first
\* returned candidate has the lowest score of all valid candidates, in both
\* branches; the handler's recommended_flight_cost is the price of the
\* lowest-score candidate, or 0 when there is no valid candidate, and
\* remaining_budget is budget minus that cost.
C10_CostOfTopRanked ==
    LET W == PricedPositions
        sc == ScoreTable
    IN  /\ (pc = "hotels" /\ W # {} /\ \A a \in W : PriceAt(a) >= 0) =>
              /\ best_flights # <<>>
              /\ best_flights[1] \in W
              /\ \A b \in W : sc[best_flights[1]] <= sc[b]
        /\ pc = "responded" =>
              /\ response.recommended_flight_cost =
                    (IF W = {} THEN 0 ELSE PriceAt(TopRanked(sc, W)))
              /\ response.remaining_budget =
                    request.budget - response.recommended_flight_cost

C10_Witness ==
    /\ pc = "responded"
    /\ response.recommended_flight_cost = 110
    /\ response.remaining_budget = request.budget - 110
    /\ \E k \in 1..Len(flight_results) : flight_results[k].price = Num(100)
    /\ Len(best_flights) = MaxResults

====
